---- MODULE Spec2Model ----
(***************************************************************************)
(* A model of find_img_my_face.py: the command-line entry point (main,     *)
(* validate_paths), the reference loader (load_reference_faces) and the    *)
(* matching pipeline (find_and_save_matching_faces).                       *)
(*                                                                         *)
(* Strings that the program inspects character by character (file names,   *)
(* extensions) are sequences of one-character strings.  A face embedding   *)
(* is a point on a line and the distance of two embeddings is the absolute *)
(* difference, in tenths (tolerance 0.6 is 6).  What the external          *)
(* face_recognition and shutil calls do to one file (raise, return faces,  *)
(* write) is a fixed attribute of that file, so that two runs over the     *)
(* same album see the same behaviour.                                      *)
(***************************************************************************)
EXTENDS Integers, Sequences, FiniteSets, TLC

(* ------------------------------ bounds -------------------------------- *)
MaxFiles == 2
MaxRefs == 2

(* ----------------------- strings and extensions ----------------------- *)
\* str.lower() on the characters the model's names use
LowerChar(c) ==
    CASE c = "A" -> "a"
      [] c = "B" -> "b"
      [] c = "C" -> "c"
      [] c = "G" -> "g"
      [] c = "J" -> "j"
      [] c = "N" -> "n"
      [] c = "P" -> "p"
      [] OTHER -> c

Lower(s) == [i \in 1..Len(s) |-> LowerChar(s[i])]

SetMax(S) == CHOOSE m \in S : \A x \in S : x <= m

\* os.path.splitext(p)[1] for a name without directory separators: the text
\* from the last dot on, unless only dots precede that dot (or there is none)
SplitExt(p) ==
    LET dots == {i \in 1..Len(p) : p[i] = "."}
        dotIndex == IF dots = {} THEN 0 ELSE SetMax(dots)
    IN  IF dotIndex > 0 /\ \E k \in 1..(dotIndex - 1) : p[k] # "."
        THEN SubSeq(p, dotIndex, Len(p))
        ELSE <<>>

ExtJpg == <<".", "j", "p", "g">>
ExtJpeg == <<".", "j", "p", "e", "g">>
ExtPng == <<".", "p", "n", "g">>
ExtBmp == <<".", "b", "m", "p">>
ExtGif == <<".", "g", "i", "f">>
ExtJPG == <<".", "J", "P", "G">>
ExtPNG == <<".", "P", "N", "G">>
BareJpg == <<"j", "p", "g">>

\* the default allow-list of find_and_save_matching_faces
DefaultExtensions == <<ExtJpg, ExtJpeg, ExtPng, ExtBmp, ExtGif>>

\* file_extensions = [ext.lower() for ext in file_extensions]
NormalizeExtensions(exts) == [i \in 1..Len(exts) |-> Lower(exts[i])]

SeqRange(s) == {s[i] : i \in 1..Len(s)}

\* the filter of the listing, as written without the lower-casing of the name
AdmittedAsWritten(f, exts) == SplitExt(f) \in SeqRange(exts)

\* os.path.splitext(f.lower())[1] in file_extensions
Admitted(f, exts) == SplitExt(Lower(f)) \in SeqRange(exts)

RECURSIVE FilterNames(_, _)
\* [f for f in os.listdir(album_path) if ...]: the admitted names, in listing order
FilterNames(names, exts) ==
    IF names = <<>> THEN <<>>
    ELSE LET rest == FilterNames(Tail(names), exts)
         IN  IF Admitted(Head(names), exts) THEN <<Head(names)>> \o rest ELSE rest

(* ------------------------------- paths -------------------------------- *)
\* os.path.expanduser
ExpandUser(p) == IF p.root = "~" THEN [p EXCEPT !.root = "/home/user"] ELSE p

\* os.path.abspath
AbsPath(p) == IF p.root = "." THEN [p EXCEPT !.root = "/cwd"] ELSE p

RECURSIVE ValidateFrom(_, _, _)
ValidateFrom(paths, valid_paths, absent) ==
    IF paths = <<>> THEN valid_paths
    ELSE LET abs_path == AbsPath(ExpandUser(Head(paths)))
         IN  IF abs_path \in absent
             THEN ValidateFrom(Tail(paths), valid_paths, absent)
             ELSE ValidateFrom(Tail(paths), Append(valid_paths, abs_path), absent)

\* validate_paths(paths) on a file system where the paths in absent do not exist
validate_paths(paths, absent) == ValidateFrom(paths, <<>>, absent)

(* --------------------------- face matching ---------------------------- *)
Abs(x) == IF x < 0 THEN -x ELSE x

\* the Euclidean distance of two one-dimensional embeddings
FaceDistance(a, b) == Abs(a - b)

\* a threshold test written the wrong way round
ReversedTolerance(d, tol) == d >= tol

\* the comparator's threshold test: a pair is accepted when its distance is
\* within the tolerance
WithinTolerance(d, tol) == d <= tol

\* face_recognition.compare_faces(reference_encodings, face_encoding, tolerance)
compare_faces(refs, face, tol) ==
    [i \in 1..Len(refs) |-> WithinTolerance(FaceDistance(refs[i], face), tol)]

\* a test of the first reference only
FirstOnly(matches) == Len(matches) > 0 /\ matches[1]

\* any(matches)
AnyMatch(matches) == \E i \in 1..Len(matches) : matches[i]

(* ------------------------- the output directory ----------------------- *)
\* the output directory is a set of <<name, content>> entries, one per name
OutNames(out) == {e[1] : e \in out}

RECURSIVE FreeName(_, _)
\* a copy that keeps an existing entry and writes under a name not yet taken
FreeName(out, name) ==
    IF name \in OutNames(out) THEN FreeName(out, name \o <<"~">>) ELSE name

RenameOnCollision(out, name, content) == out \cup {<<FreeName(out, name), content>>}

\* shutil.copy2(img_path, os.path.join(output_folder, filename)): the
\* destination is the file's own name, and an existing entry is replaced
CopyInto(out, name, content) ==
    {e \in out : e[1] # name} \cup {<<name, content>>}

(* ------------------------- the files on disk -------------------------- *)
NameA == <<"a", ".", "j", "p", "g">>
NameB == <<"B", ".", "J", "P", "G">>
NameC == <<"c", ".", "P", "n", "g">>
NameD == <<"d", ".", "g", "i", "f">>
NameTxt == <<"n", ".", "t", "x", "t">>
NameHidden == <<".", "j", "p", "g">>
NameNoDot == <<"j", "p", "g">>
NameTwoExt == <<"a", ".", "j", "p", "g", ".", "t", "x", "t">>

\* the name of the i-th file of an album whose names are not varied
PosNames == <<NameA, NameB, NameC, NameD>>

\* the names an album is drawn from when the scan is what is examined
ScanNames == {NameA, NameB, NameC, NameTxt, NameHidden, NameNoDot, NameTwoExt}

\* What the external calls do to one image file: fail names the call that
\* raises ("load": load_image_file, "detect": face_locations, "encode":
\* face_encodings, "copy_pre": copy2 before it writes, "copy_post": copy2
\* after the data is written), faces the embeddings of the detected faces.
Behaviour(fail, faces) == [fail |-> fail, faces |-> faces]

FileKinds ==
    { Behaviour("load", <<>>), Behaviour("detect", <<>>), Behaviour("encode", <<0>>),
      Behaviour("none", <<>>), Behaviour("none", <<0>>), Behaviour("none", <<5>>),
      Behaviour("none", <<9, 0>>), Behaviour("none", <<0, 0>>),
      Behaviour("copy_pre", <<0>>), Behaviour("copy_post", <<0>>) }

RefKinds ==
    { Behaviour("load", <<>>), Behaviour("encode", <<0>>), Behaviour("none", <<>>),
      Behaviour("none", <<0>>), Behaviour("none", <<9, 0>>) }

File(name, content, kind) ==
    [name |-> name, content |-> content, fail |-> kind.fail, faces |-> kind.faces]

\* an album of the given behaviours, named by position
AlbumOf(kinds) == [i \in 1..Len(kinds) |-> File(PosNames[i], i, kinds[i])]

SeqsUpTo(S, n) == UNION {[1..k -> S] : k \in 0..n}

RefNames == <<"r1", "r2", "r3", "r4">>

RefPaths(n, root) == [i \in 1..n |-> [root |-> root, name |-> RefNames[i]]]

\* the reference files r1, r2, ... with the given behaviours
RefFiles(kinds) ==
    [nm \in {RefNames[i] : i \in 1..Len(kinds)} |->
        kinds[CHOOSE i \in 1..Len(kinds) : RefNames[i] = nm]]

StrictTolerance == 4
DefaultTolerance == 6

\* the tolerances of one invocation, or of two in a row over the same inputs
Plans == { <<StrictTolerance>>, <<DefaultTolerance>>,
           <<StrictTolerance, StrictTolerance>>, <<StrictTolerance, DefaultTolerance>>,
           <<DefaultTolerance, StrictTolerance>> }

NoExtensions == [given |-> FALSE, list |-> <<>>]
Extensions(list) == [given |-> TRUE, list |-> list]

ExtChoices ==
    { NoExtensions, Extensions(<<ExtJpg>>), Extensions(<<ExtJPG>>),
      Extensions(<<ExtPNG, ExtJpg>>), Extensions(<<BareJpg>>), Extensions(<<<<>>>>) }

NoArgv == [album |-> <<>>, output |-> <<>>, refs |-> <<>>,
           tolerance |-> DefaultTolerance, extensions |-> NoExtensions]

(* ------------------------------- state -------------------------------- *)
VARIABLES
    argv,                   \* what the command line gave (main only)
    absent,                 \* the absolute paths that do not exist
    album,                  \* the album directory: its files in os.listdir order
    albumStatus,            \* "ok", or "denied" when os.listdir raises PermissionError
    refContent,             \* reference file name -> its behaviour
    later,                  \* tolerances of the invocations still to come
    reference_image_paths,  \* arguments of find_and_save_matching_faces
    tolerance,
    extArg,
    output_exists,          \* the output folder exists
    output,                 \* the entries of the output folder
    pc,                     \* the position in the program
    reference_encodings,    \* locals of load_reference_faces
    refIdx,
    file_extensions,        \* locals of find_and_save_matching_faces
    image_files,
    idx,
    face_encodings,
    faceIdx,
    matched_images,
    skipped_images,
    result,                 \* the value the last invocation returned
    printed,                \* the last diagnostic the invocation printed
    listed,                 \* os.listdir was called in this invocation
    visited,                \* the names the for statement has taken, in order
    decisions,              \* how each visited candidate ended, in order
    copyLog,                \* the names whose copy2 call returned, in order
    first,                  \* what the first of two invocations left behind
    output_before           \* the entries of the output folder when the invocation began

inputs == <<argv, absent, album, albumStatus, refContent>>
params == <<reference_image_paths, tolerance, extArg>>
refLocals == <<reference_encodings, refIdx>>
scanLocals == <<file_extensions, image_files>>
loopLocals == <<idx, face_encodings, faceIdx>>
counters == <<matched_images, skipped_images>>
history == <<listed, visited, decisions, copyLog, first, output_before>>

vars == <<inputs, later, params, output_exists, output, pc, refLocals, scanLocals,
          loopLocals, counters, result, printed, history>>

NoFirst == [done |-> FALSE, matched |-> {}, output |-> {}, tolerance |-> 0]

\* everything an invocation starts from
Fresh ==
    /\ reference_encodings = <<>>
    /\ refIdx = 1
    /\ file_extensions = <<>>
    /\ image_files = <<>>
    /\ idx = 0
    /\ face_encodings = <<>>
    /\ faceIdx = 1
    /\ matched_images = 0
    /\ skipped_images = 0
    /\ result = 0
    /\ printed = "none"
    /\ listed = FALSE
    /\ visited = <<>>
    /\ decisions = <<>>
    /\ copyLog = <<>>
    /\ first = NoFirst
    /\ output_before = {}

StaleOutput == {<<NameA, 0>>, <<NameTxt, 0>>}

\* a direct call of find_and_save_matching_faces
Direct(a, status, refKinds, plan, exts, outExists, out) ==
    /\ argv = NoArgv
    /\ absent = {}
    /\ album = a
    /\ albumStatus = status
    /\ refContent = RefFiles(refKinds)
    /\ reference_image_paths = RefPaths(Len(refKinds), "/")
    /\ tolerance = Head(plan)
    /\ later = Tail(plan)
    /\ extArg = exts
    /\ output_exists = outExists
    /\ output = out
    /\ pc = "entry"
    /\ Fresh

\* a.jpg matches the reference, b.jpg shows no face, c.png shows another face
ScenarioAlbum ==
    <<File(NameA, 1, Behaviour("none", <<0>>)), File(NameB, 2, Behaviour("none", <<>>)),
      File(NameC, 3, Behaviour("none", <<9>>))>>

BaseAlbums ==
    { ScenarioAlbum,
      AlbumOf(<<Behaviour("none", <<5>>)>>),
      AlbumOf(<<Behaviour("none", <<0>>), Behaviour("none", <<>>)>>),
      AlbumOf(<<Behaviour("none", <<9, 0>>), Behaviour("load", <<>>)>>) }

BaseRefs == { <<Behaviour("none", <<0>>)>>,
              <<Behaviour("none", <<0>>), Behaviour("none", <<9, 0>>)>> }

\* the reference images are varied, over a few albums and output folders
InitReferences ==
    \E a \in BaseAlbums, ks \in SeqsUpTo(RefKinds, MaxRefs), plan \in Plans,
       o \in {<<FALSE, {}>>, <<TRUE, {}>>, <<TRUE, StaleOutput>>} :
        Direct(a, "ok", ks, plan, NoExtensions, o[1], o[2])

\* the album's files are varied, over a few reference sets
InitAlbum ==
    \E ks \in SeqsUpTo(FileKinds, MaxFiles), rs \in BaseRefs, plan \in Plans :
        Direct(AlbumOf(ks), "ok", rs, plan, NoExtensions, TRUE, StaleOutput)

\* one invocation with one reference, over every album
InitOnce ==
    \E ks \in SeqsUpTo(FileKinds, MaxFiles) :
        Direct(AlbumOf(ks), "ok", <<Behaviour("none", <<0>>)>>, <<DefaultTolerance>>,
               NoExtensions, TRUE, StaleOutput)

\* the names in the album and the allow-list are varied
InitScan ==
    \E n \in 0..MaxFiles, status \in {"ok", "denied"}, exts \in ExtChoices :
      \E names \in {s \in [1..n -> ScanNames] : \A i, j \in 1..n : s[i] = s[j] => i = j} :
        Direct([i \in 1..n |-> File(names[i], i, Behaviour("none", <<0>>))], status,
               <<Behaviour("none", <<0>>)>>, <<DefaultTolerance>>, exts, TRUE, {})

ArgRoots == {"/", "~", "."}

\* a command-line run: main validates the paths and calls the pipeline
InitMain ==
    \E ra \in ArgRoots, ro \in ArgRoots, n \in 1..MaxRefs, tol \in {StrictTolerance, DefaultTolerance} :
      \E gone \in SUBSET ({"album", "out"} \cup {RefNames[i] : i \in 1..n}) :
        /\ argv = [album |-> [root |-> ra, name |-> "album"],
                   output |-> [root |-> ro, name |-> "out"],
                   refs |-> RefPaths(n, "~"),
                   tolerance |-> tol,
                   extensions |-> Extensions(DefaultExtensions)]
        /\ absent = {AbsPath(ExpandUser(p)) :
                       p \in {q \in {argv.album, argv.output} \cup SeqRange(argv.refs) :
                                q.name \in gone}}
        /\ album = AlbumOf(<<Behaviour("none", <<0>>), Behaviour("none", <<9>>)>>)
        /\ albumStatus = "ok"
        /\ refContent = RefFiles([i \in 1..n |-> Behaviour("none", <<0>>)])
        /\ reference_image_paths = <<>>
        /\ tolerance = DefaultTolerance
        /\ later = <<>>
        /\ extArg = NoExtensions
        /\ output_exists = ("out" \notin gone)
        /\ output = {}
        /\ pc = "main_album"
        /\ Fresh

Init == InitReferences \/ InitAlbum \/ InitScan \/ InitMain

(* -------------------------------- main -------------------------------- *)
\* album_path = validate_paths([args.album_path])[0]
MainAlbum ==
    /\ pc = "main_album"
    /\ pc' = IF validate_paths(<<argv.album>>, absent) = <<>>
             THEN "crashed"      \* IndexError leaves main
             ELSE "main_output"
    /\ UNCHANGED <<inputs, later, params, output_exists, output, refLocals, scanLocals,
                   loopLocals, counters, result, printed, history>>

\* output_folder = validate_paths([args.output_folder])[0]
MainOutput ==
    /\ pc = "main_output"
    /\ pc' = IF validate_paths(<<argv.output>>, absent) = <<>>
             THEN "crashed"      \* IndexError leaves main
             ELSE "main_refs"
    /\ UNCHANGED <<inputs, later, params, output_exists, output, refLocals, scanLocals,
                   loopLocals, counters, result, printed, history>>

\* reference_images = validate_paths(args.reference_images), and the call
MainCall ==
    /\ pc = "main_refs"
    /\ reference_image_paths' = validate_paths(argv.refs, absent)
    /\ tolerance' = argv.tolerance
    /\ extArg' = argv.extensions
    /\ pc' = "entry"
    /\ UNCHANGED <<inputs, later, output_exists, output, refLocals, scanLocals,
                   loopLocals, counters, result, printed, history>>

(* ------------------------ load_reference_faces ------------------------ *)
\* os.makedirs(output_folder, exist_ok=True), then the call of the loader
Entry ==
    /\ pc = "entry"
    /\ output_exists' = TRUE
    /\ reference_encodings' = <<>>
    /\ refIdx' = 1
    /\ output_before' = output
    /\ pc' = "load_refs"
    /\ UNCHANGED <<inputs, later, params, output, scanLocals, loopLocals, counters,
                   result, printed, listed, visited, decisions, copyLog, first>>

\* one turn of the loader's loop: a reference that raises or shows no face
\* adds nothing, any other adds its first encoding
LoadReference ==
    /\ pc = "load_refs"
    /\ refIdx <= Len(reference_image_paths)
    /\ LET ref == refContent[reference_image_paths[refIdx].name]
       IN  reference_encodings' =
               IF ref.fail = "none" /\ ref.faces # <<>>
               THEN Append(reference_encodings, ref.faces[1])
               ELSE reference_encodings
    /\ refIdx' = refIdx + 1
    /\ UNCHANGED <<inputs, later, params, output_exists, output, pc, scanLocals,
                   loopLocals, counters, result, printed, history>>

\* a loader whose empty result does not end the invocation
ProceedWithoutReferences ==
    /\ pc = "load_refs"
    /\ refIdx > Len(reference_image_paths)
    /\ pc' = "extensions"
    /\ UNCHANGED <<inputs, later, params, output_exists, output, refLocals, scanLocals,
                   loopLocals, counters, result, printed, history>>

\* return reference_encodings; if not reference_encodings: return 0
CheckReferences ==
    /\ pc = "load_refs"
    /\ refIdx > Len(reference_image_paths)
    /\ IF reference_encodings = <<>>
       THEN /\ printed' = "no_references"
            /\ result' = 0
            /\ pc' = "returned"
       ELSE /\ pc' = "extensions"
            /\ UNCHANGED <<result, printed>>
    /\ UNCHANGED <<inputs, later, params, output_exists, output, refLocals, scanLocals,
                   loopLocals, counters, history>>

(* -------------------- find_and_save_matching_faces -------------------- *)
\* the default allow-list when none is given, lower-cased either way
SetExtensions ==
    /\ pc = "extensions"
    /\ file_extensions' =
           NormalizeExtensions(IF extArg.given THEN extArg.list ELSE DefaultExtensions)
    /\ pc' = "listdir"
    /\ UNCHANGED <<inputs, later, params, output_exists, output, refLocals, image_files,
                   loopLocals, counters, result, printed, history>>

AlbumNames == [i \in 1..Len(album) |-> album[i].name]

\* image_files = [f for f in os.listdir(album_path) if ...], PermissionError caught
ListAlbum ==
    /\ pc = "listdir"
    /\ listed' = TRUE
    /\ IF albumStatus = "denied"
       THEN /\ printed' = "denied"
            /\ result' = 0
            /\ pc' = "returned"
            /\ UNCHANGED image_files
       ELSE /\ image_files' = FilterNames(AlbumNames, file_extensions)
            /\ pc' = "check_images"
            /\ UNCHANGED <<result, printed>>
    /\ UNCHANGED <<inputs, later, params, output_exists, output, refLocals,
                   file_extensions, loopLocals, counters, visited, decisions, copyLog,
                   first, output_before>>

\* if not image_files: return 0; else the counters start at 0
CheckImages ==
    /\ pc = "check_images"
    /\ IF image_files = <<>>
       THEN /\ printed' = "no_images"
            /\ result' = 0
            /\ pc' = "returned"
            /\ UNCHANGED <<counters, idx>>
       ELSE /\ printed' = "searching"
            /\ matched_images' = 0
            /\ skipped_images' = 0
            /\ idx' = 0
            /\ pc' = "for"
            /\ UNCHANGED result
    /\ UNCHANGED <<inputs, later, params, output_exists, output, refLocals, scanLocals,
                   face_encodings, faceIdx, history>>

\* for filename in image_files: the next name, or the end of the loop
ForNext ==
    /\ pc = "for"
    /\ IF idx < Len(image_files)
       THEN /\ idx' = idx + 1
            /\ visited' = Append(visited, image_files[idx + 1])
            /\ pc' = "load"
       ELSE /\ pc' = "summary"
            /\ UNCHANGED <<idx, visited>>
    /\ UNCHANGED <<inputs, later, params, output_exists, output, refLocals, scanLocals,
                   face_encodings, faceIdx, counters, result, printed, listed, decisions,
                   copyLog, first, output_before>>

\* the file of the album that the loop is at
Current == album[CHOOSE i \in 1..Len(album) : album[i].name = image_files[idx]]

\* the end of one candidate's turn, with what became of it
Decide(d) == decisions' = Append(decisions, [name |-> image_files[idx], decision |-> d])

\* image = face_recognition.load_image_file(img_path)
LoadImage ==
    /\ pc = "load"
    /\ pc' = IF Current.fail = "load" THEN "except" ELSE "locate"
    /\ UNCHANGED <<inputs, later, params, output_exists, output, refLocals, scanLocals,
                   loopLocals, counters, result, printed, history>>

\* face_locations = face_recognition.face_locations(image); without a face the
\* else branch counts the image as skipped
FaceLocations ==
    /\ pc = "locate"
    /\ IF Current.fail = "detect"
       THEN /\ pc' = "except"
            /\ UNCHANGED <<skipped_images, decisions>>
       ELSE IF Current.faces # <<>>
            THEN /\ pc' = "encode"
                 /\ UNCHANGED <<skipped_images, decisions>>
            ELSE /\ skipped_images' = skipped_images + 1
                 /\ Decide("NoFaceDetected")
                 /\ pc' = "for"
    /\ UNCHANGED <<inputs, later, params, output_exists, output, refLocals, scanLocals,
                   loopLocals, matched_images, result, printed, listed, visited, copyLog,
                   first, output_before>>

\* face_encodings = face_recognition.face_encodings(image, face_locations)
FaceEncodings ==
    /\ pc = "encode"
    /\ IF Current.fail = "encode"
       THEN /\ pc' = "except"
            /\ UNCHANGED <<face_encodings, faceIdx>>
       ELSE /\ face_encodings' = Current.faces
            /\ faceIdx' = 1
            /\ pc' = "compare"
    /\ UNCHANGED <<inputs, later, params, output_exists, output, refLocals, scanLocals,
                   idx, counters, result, printed, history>>

\* one turn of for face_encoding in face_encodings: compare, and on any match
\* go on to the copy; when the faces are used up nothing is counted
CompareFace ==
    /\ pc = "compare"
    /\ IF faceIdx > Len(face_encodings)
       THEN /\ Decide("NoMatch")
            /\ pc' = "for"
            /\ UNCHANGED faceIdx
       ELSE IF AnyMatch(compare_faces(reference_encodings, face_encodings[faceIdx], tolerance))
            THEN /\ pc' = "copy"
                 /\ UNCHANGED <<faceIdx, decisions>>
            ELSE /\ faceIdx' = faceIdx + 1
                 /\ UNCHANGED <<pc, decisions>>
    /\ UNCHANGED <<inputs, later, params, output_exists, output, refLocals, scanLocals,
                   idx, face_encodings, counters, result, printed, listed, visited,
                   copyLog, first, output_before>>

\* a loop over the faces without the break
KeepComparing == "compare"

\* break: the remaining faces of the image are not compared
AfterMatch == "for"

\* shutil.copy2(img_path, output_path); matched_images += 1; break
CopyMatch ==
    /\ pc = "copy"
    /\ IF Current.fail = "copy_pre"
       THEN /\ pc' = "except"
            /\ UNCHANGED <<output, matched_images, copyLog, decisions, faceIdx>>
       ELSE IF Current.fail = "copy_post"
            THEN /\ output' = CopyInto(output, Current.name, Current.content)
                 /\ pc' = "except"
                 /\ UNCHANGED <<matched_images, copyLog, decisions, faceIdx>>
            ELSE /\ output' = CopyInto(output, Current.name, Current.content)
                 /\ matched_images' = matched_images + 1
                 /\ copyLog' = Append(copyLog, Current.name)
                 /\ pc' = AfterMatch
                 /\ IF pc' = "for"
                    THEN Decide("Matched") /\ UNCHANGED faceIdx
                    ELSE faceIdx' = faceIdx + 1 /\ UNCHANGED decisions
    /\ UNCHANGED <<inputs, later, params, output_exists, refLocals, scanLocals, idx,
                   face_encodings, skipped_images, result, printed, listed, visited, first,
                   output_before>>

\* a try block without the except clause: the exception leaves the function
Propagate == "crashed"

\* where control goes when a call in the try block raises: the except clause
Caught == "for"

\* except Exception as e: print(...); skipped_images += 1
HandleException ==
    /\ pc = "except"
    /\ pc' = Caught
    /\ IF pc' = "for"
       THEN /\ skipped_images' = skipped_images + 1
            /\ Decide("ProcessingError")
       ELSE UNCHANGED <<skipped_images, decisions>>
    /\ UNCHANGED <<inputs, later, params, output_exists, output, refLocals, scanLocals,
                   loopLocals, matched_images, result, printed, listed, visited, copyLog,
                   first, output_before>>

\* the printed results and return matched_images
Summary ==
    /\ pc = "summary"
    /\ printed' = "summary"
    /\ result' = matched_images
    /\ pc' = "returned"
    /\ UNCHANGED <<inputs, later, params, output_exists, output, refLocals, scanLocals,
                   loopLocals, counters, history>>

\* the names copied by the invocation that has just returned
MatchedSet == SeqRange(copyLog)

\* the same command again, with the next tolerance, over the same files
Rerun ==
    /\ pc = "returned"
    /\ later # <<>>
    /\ first' = [done |-> TRUE, matched |-> MatchedSet, output |-> output,
                 tolerance |-> tolerance]
    /\ tolerance' = Head(later)
    /\ later' = Tail(later)
    /\ pc' = "entry"
    /\ file_extensions' = <<>>
    /\ image_files' = <<>>
    /\ idx' = 0
    /\ face_encodings' = <<>>
    /\ faceIdx' = 1
    /\ matched_images' = 0
    /\ skipped_images' = 0
    /\ result' = 0
    /\ printed' = "none"
    /\ listed' = FALSE
    /\ visited' = <<>>
    /\ decisions' = <<>>
    /\ copyLog' = <<>>
    /\ UNCHANGED <<inputs, reference_image_paths, extArg, output_exists, output, refLocals,
                   output_before>>

\* one invocation of find_and_save_matching_faces
Pipeline ==
    \/ Entry \/ LoadReference \/ CheckReferences
    \/ SetExtensions \/ ListAlbum \/ CheckImages
    \/ ForNext \/ LoadImage \/ FaceLocations \/ FaceEncodings \/ CompareFace
    \/ CopyMatch \/ HandleException \/ Summary

Next == MainAlbum \/ MainOutput \/ MainCall \/ Pipeline \/ Rerun

Spec == Init /\ [][Next]_vars

\* One invocation over every album, as a single sequential thread runs it:
\* the program never stops while a statement is left to execute.
FairScan == InitOnce /\ [][Pipeline]_vars /\ WF_vars(Pipeline)

(* ----------------------- notions the claims use ----------------------- *)
\* the program keeps two counters only: no counter of errors is declared
errored_images == 0

ScanPcs == {"for", "load", "locate", "encode", "compare", "copy", "except", "summary"}

Decided == 1..Len(decisions)

Count(d) == Cardinality({k \in Decided : decisions[k].decision = d})

FileNamed(n) == album[CHOOSE i \in 1..Len(album) : album[i].name = n]

\* the face embeddings the program obtains from a file
Embeddings(f) == IF f.fail \in {"load", "detect", "encode"} THEN <<>> ELSE f.faces

\* some face of the file is within the tolerance of some reference: every
\* face and every reference is looked at
HasMatch(f) ==
    \E i \in 1..Len(Embeddings(f)), j \in 1..Len(reference_encodings) :
        FaceDistance(Embeddings(f)[i], reference_encodings[j]) <= tolerance

Unusable(p) == refContent[p.name].fail # "none" \/ refContent[p.name].faces = <<>>

AllUnusable == \A i \in 1..Len(reference_image_paths) : Unusable(reference_image_paths[i])

LoaderReturned ==
    \/ pc = "load_refs" /\ refIdx > Len(reference_image_paths)
    \/ pc \in {"extensions", "listdir", "check_images", "returned"} \cup ScanPcs

AllowList == IF extArg.given THEN extArg.list ELSE DefaultExtensions

\* the lower-cased extension of the name is the lower-cased form of an entry
AdmissibleName(f) == \E e \in SeqRange(AllowList) : Lower(SplitExt(f)) = Lower(e)

DecidedNames == [k \in Decided |-> decisions[k].name]

IsMatched(k) == decisions[k].decision = "Matched"

RECURSIVE MatchedNames(_)
\* the names decided Matched among the first k decisions, in order
MatchedNames(k) ==
    IF k = 0 THEN <<>>
    ELSE IF IsMatched(k) THEN Append(MatchedNames(k - 1), decisions[k].name)
         ELSE MatchedNames(k - 1)

SecondOfTwo == first.done /\ pc = "returned"

\* the place of a reference path on the command line
RefRank(p) == CHOOSE i \in 1..Len(argv.refs) : argv.refs[i].name = p.name

(* ------------------------------- claims ------------------------------- *)
\* C1: when the scan has finished, matched + skipped + errored is the number
\* of admitted candidates.  (Stated as claimed; the program counts nothing
\* for a candidate whose faces match no reference.)
C1_CountersAddUp ==
    printed = "summary" =>
        matched_images + skipped_images + errored_images = Len(image_files)

\* C2: each candidate changes exactly one counter by its decision: Matched
\* counts as matched, NoFaceDetected and NoMatch as skipped, ProcessingError
\* as errored; no file is written for a candidate that is not Matched; and
\* the album a.jpg, b.jpg, c.png with one reference ends 1, 2, 0.  (Stated
\* as claimed.)
C2_OneCounterPerDecision ==
    /\ matched_images = Count("Matched")
    /\ skipped_images = Count("NoFaceDetected") + Count("NoMatch")
    /\ errored_images = Count("ProcessingError")
    /\ ~first.done =>
           \A k \in Decided :
               ~IsMatched(k) =>
                   <<decisions[k].name, FileNamed(decisions[k].name).content>> \notin output
    /\ (album = ScenarioAlbum /\ reference_encodings = <<0>> /\ printed = "summary") =>
           (matched_images = 1 /\ skipped_images = 2 /\ errored_images = 0)

\* while the scan runs no exception leaves it, the loop has taken the
\* candidates so far once each and in order, and a statement is left to run
C3_ScanGoesOn ==
    /\ pc = "crashed" => printed = "none"
    /\ pc \in ScanPcs =>
           /\ visited = SubSeq(image_files, 1, idx)
           /\ DecidedNames = SubSeq(image_files, 1, Len(decisions))
           /\ Len(decisions) = IF pc \in {"for", "summary"} THEN idx ELSE idx - 1
           /\ ENABLED Pipeline
    /\ printed = "summary" => (visited = image_files /\ DecidedNames = image_files)

\* C3: an exception raised for one candidate never ends the scan: whatever
\* failed before, the loop takes every candidate exactly once and in order,
\* each turn ends with one decision, and the scan goes on to the summary.
C3_ErrorsNeverEndTheScan ==
    []C3_ScanGoesOn /\ ((pc \in ScanPcs) ~> (printed = "summary"))

\* a later candidate was decided after an earlier one raised, and the summary was printed
C3_Witness ==
    /\ printed = "summary"
    /\ \E i, j \in Decided :
           i < j /\ decisions[i].decision = "ProcessingError"
                 /\ decisions[j].decision = "Matched"

\* C4: the loader returns no encoding exactly when every reference fails to
\* load or shows no face, and then the invocation returns 0 without listing
\* the album, visiting a candidate or writing a file.
C4_NoUsableReference ==
    /\ LoaderReturned => (reference_encodings = <<>> <=> AllUnusable)
    /\ AllUnusable =>
           /\ pc \notin {"extensions", "listdir", "check_images"} \cup ScanPcs
           /\ ~listed /\ visited = <<>> /\ copyLog = <<>>
           /\ pc = "returned" =>
                  (result = 0 /\ printed = "no_references" /\ output = output_before)

\* two references, one that raises and one without a face, before an album with files
C4_Witness ==
    /\ pc = "returned" /\ AllUnusable /\ album # <<>>
    /\ \E i, j \in 1..Len(reference_image_paths) :
           /\ refContent[reference_image_paths[i].name].fail = "load"
           /\ refContent[reference_image_paths[j].name] = Behaviour("none", <<>>)

\* C5 as claimed: a candidate is Matched, and copied, if and only if one of
\* its faces is within the tolerance of one of the references.
C5_MatchedIffSomeFaceMatches ==
    \A k \in Decided : IsMatched(k) <=> HasMatch(FileNamed(decisions[k].name))

\* C5, amended: a candidate is Matched, and copied, if and only if one of its
\* faces is within the tolerance of one of the references and copy2 does not
\* raise for it; stopping at the first matching face decides as looking at
\* every face and every reference does.
C5_MatchedIffSomeFaceMatchesAndCopied ==
    \A k \in Decided :
        LET f == FileNamed(decisions[k].name)
        IN  /\ IsMatched(k) <=> (HasMatch(f) /\ f.fail \notin {"copy_pre", "copy_post"})
            /\ IsMatched(k) => (<<f.name, f.content>> \in output /\ f.name \in SeqRange(copyLog))
            /\ decisions[k].decision \in {"NoMatch", "NoFaceDetected"} => ~HasMatch(f)

\* a candidate whose face is near the second of two references only is Matched
C5_Witness ==
    /\ reference_encodings = <<0, 9>>
    /\ \E k \in Decided :
           /\ IsMatched(k)
           /\ FileNamed(decisions[k].name).faces[1] = 9

\* C6: of two invocations over the same inputs, the one with the smaller
\* tolerance matches a subset of what the other matches.
C6_LooserToleranceMatchesMore ==
    SecondOfTwo =>
        /\ first.tolerance < tolerance => first.matched \subseteq MatchedSet
        /\ tolerance < first.tolerance => MatchedSet \subseteq first.matched

\* the looser second invocation matched a file that the first did not
C6_Witness ==
    /\ SecondOfTwo /\ printed = "summary"
    /\ first.tolerance < tolerance
    /\ first.matched # {}
    /\ MatchedSet \ first.matched # {}

\* C7 as claimed: validate_paths returns the existing paths in input order,
\* and a command-line run with a missing path ends without an exception.
C7_MissingPathIsNotFatal ==
    /\ (argv # NoArgv /\ pc = "entry") =>
           /\ \A i \in 1..Len(reference_image_paths) : reference_image_paths[i] \notin absent
           /\ Len(reference_image_paths) =
                  Cardinality({i \in 1..Len(argv.refs) : AbsPath(ExpandUser(argv.refs[i])) \notin absent})
           /\ \A i, j \in 1..Len(reference_image_paths) :
                  i < j => RefRank(reference_image_paths[i]) < RefRank(reference_image_paths[j])
    /\ pc # "crashed"

\* C8: a second invocation with the same inputs leaves the output folder as
\* the first left it: the same names with the same content.
C8_SecondRunChangesNothing ==
    (SecondOfTwo /\ first.tolerance = tolerance) => output = first.output

\* both invocations copied a.jpg, the second over the copy the first had made
C8_Witness ==
    /\ SecondOfTwo /\ first.tolerance = tolerance /\ printed = "summary"
    /\ NameA \in MatchedSet /\ NameA \in first.matched
    /\ <<NameA, 0>> \notin first.output /\ <<NameA, 1>> \in output_before
    /\ <<NameA, 1>> \in output /\ Cardinality({e \in output : e[1] = NameA}) = 1

\* C9: the candidates are the names of the album whose lower-cased extension
\* is the lower-cased form of an entry of the allow-list, in listing order.
C9_AdmissionIgnoresCase ==
    (listed /\ albumStatus = "ok") => image_files = SelectSeq(AlbumNames, AdmissibleName)

\* B.JPG and a.jpg are both candidates when the list given is .JPG
C9_Witness ==
    /\ pc = "check_images"
    /\ extArg = Extensions(<<ExtJPG>>)
    /\ NameA \in SeqRange(image_files) /\ NameB \in SeqRange(image_files)

\* C10: the candidates are handled one at a time in listing order, the copies
\* are made in that order, no candidate is copied or counted twice, and the
\* value returned is the number of copies that completed.
C10_CopiesInOrderOncePerCandidate ==
    /\ pc \in ScanPcs =>
           /\ visited = SubSeq(image_files, 1, idx)
           /\ Len(decisions) \in {idx - 1, idx}
    /\ copyLog = MatchedNames(Len(decisions))
    /\ \A i, j \in 1..Len(copyLog) : copyLog[i] = copyLog[j] => i = j
    /\ matched_images = Len(copyLog)
    /\ pc = "returned" => result = Len(copyLog)

\* two files were copied in order, the first of them with two matching faces
C10_Witness ==
    /\ printed = "summary" /\ result = 2
    /\ copyLog = <<NameA, NameB>>
    /\ FileNamed(NameA).faces = <<0, 0>>

====
